---- MODULE Spec2Model ----
(***************************************************************************)
(* Proposal lifecycle and vote tally engine of the governance bot.         *)
(*                                                                         *)
(* The model follows the Python sources: the in-memory dictionary          *)
(* client.vote_counts, the documents vote_counts.json, archived_votes.json *)
(* and governance_cache.json, the periodic job check_governance, the       *)
(* button callback ButtonHandler._handle_vote, the archival routine        *)
(* CacheManager.delete_executed_keys_and_archive and the proposal cache    *)
(* of GovernanceMonitor.                                                   *)
(*                                                                         *)
(* Python dictionaries are functions.  A dictionary key is a string or an  *)
(* integer and the two never compare equal (123 != "123"), so wherever the *)
(* code mixes both, a key is the record [type, val].  JSON object keys are *)
(* always strings: json.dump writes an integer key as its decimal string.  *)
(***************************************************************************)
EXTENDS Integers, FiniteSets, Sequences, TLC

\* Bounds of the model.
MaxProposal == 2      \* proposal ids the chain source can report: 1..MaxProposal
MaxUsers == 2         \* user identities 1..MaxUsers
MaxThreads == 2       \* forum threads Discord can still allocate
MaxOps == 5           \* button clicks and steps of check_governance
MaxClock == 2         \* clock readings seen by the proposal cache
MaxBackups == 2       \* max_backups of rotating_backup_file (5 in the code)
MaxStoreCycles == 3   \* cycles followed in the backup directory
MaxStoreOps == 2      \* clicks and failures among them
MaxDays == 1          \* days argument of cleanup_old_proposals: 0..MaxDays
MaxRequests == 3      \* vote requests followed with their answers
MaxCount == 1         \* counts 0..MaxCount in a vote file found at start

Proposals == 1..MaxProposal
Users == 1..MaxUsers
Choices == {"aye", "nay", "recuse"}
None == "None"

VARIABLES
    vote_counts,      \* client.vote_counts: str(thread id) -> vote data
    votes_file,       \* ../data/vote_counts.json
    archive_file,     \* ../data/archived_votes.json
    pc,               \* position of check_governance; "down": the process died
    new_referendums,  \* result of hemi_network.monitor_new_proposals
    pending,          \* part of new_referendums the loop has not processed
    threads_to_lock,  \* result of delete_executed_keys_and_archive
    nextThread,       \* threads allocated so far
    now,              \* clock
    nops,             \* button clicks and steps of check_governance so far
    op,               \* the last operation and its outcome
    lastCast,         \* per thread, the last choice each user cast
    prevRec,          \* the reconcile calls made back to back
    lastRun,          \* the active set and completion of the last cycle
    cache_file,       \* ../data/governance_cache.json
    gm_new,           \* result of GovernanceMonitor.monitor_new_proposals
    gm_active,        \* the active_proposals it was called with
    backups,          \* ../data/backup/: the .bak files, by name
    votes_mtime,      \* modification time of vote_counts.json
    config,           \* config.SOLO_MODE and config.READ_ONLY
    task,             \* the tasks.loop jobs of main.py: where each one is
    w3,               \* hemi_network.w3
    managed_tasks     \* task_handler.managed_tasks: the names it holds

tallyVars == <<vote_counts, votes_file, archive_file, pc, new_referendums,
               pending, threads_to_lock, nextThread, nops,
               lastCast, prevRec, lastRun>>
regVars == <<cache_file, gm_new, gm_active>>
storeVars == <<backups, votes_mtime>>
jobVars == <<config, task, w3, managed_tasks>>
vars == <<vote_counts, votes_file, archive_file, pc, new_referendums,
          pending, threads_to_lock, nextThread, now, nops, op,
          lastCast, prevRec, lastRun, cache_file, gm_new, gm_active,
          backups, votes_mtime, config, task, w3, managed_tasks>>

(***************************************************************************)
(* Dictionaries and files                                                  *)
(***************************************************************************)
EmptyDict == <<>>
Put(d, k, v) == [x \in DOMAIN d \cup {k} |-> IF x = k THEN v ELSE d[x]]
Pop(d, keys) == [x \in DOMAIN d \ keys |-> d[x]]
Max(a, b) == IF a >= b THEN a ELSE b
Min(S) == CHOOSE x \in S : \A y \in S : x <= y

StrKey(v) == [type |-> "str", val |-> v]
IntKey(v) == [type |-> "int", val |-> v]

NoFile == [exists |-> FALSE, doc |-> EmptyDict]
File(document) == [exists |-> TRUE, doc |-> document]

\* What open(path, 'w') followed by an interrupted json.dump leaves: the file
\* is truncated and holds a proper prefix of the text, which json.load
\* rejects.
Torn == [exists |-> TRUE, doc |-> EmptyDict, torn |-> TRUE]
IsTorn(file) == "torn" \in DOMAIN file

Op(name, out) == [name |-> name, out |-> out]

(***************************************************************************)
(* ButtonHandler._handle_vote, button_handler.py:53-66                     *)
(***************************************************************************)
\* key in dictionary, for a dictionary whose keys are all strings.
Contains(dictionary, key) == key.type = "str" /\ key.val \in DOMAIN dictionary

\* previous_vote = vote_data.get('users', {}).get(user_id)
PreviousVote(vote_data, user_id) ==
    IF user_id \in DOMAIN vote_data["users"] THEN vote_data["users"][user_id] ELSE None

\* if previous_vote: vote_data[previous_vote] = max(0, vote_data[previous_vote] - 1)
RemovePrevious_NoDecrement(vote_data, user_id) == vote_data
RemovePrevious_NoFloor(vote_data, user_id) ==
    LET previous_vote == PreviousVote(vote_data, user_id)
    IN  IF previous_vote # None
        THEN [vote_data EXCEPT ![previous_vote] = @ - 1]
        ELSE vote_data
RemovePrevious_ClearCount(vote_data, user_id) ==
    LET previous_vote == PreviousVote(vote_data, user_id)
    IN  IF previous_vote # None
        THEN [vote_data EXCEPT ![previous_vote] = 0]
        ELSE vote_data
RemovePrevious(vote_data, user_id) ==
    LET previous_vote == PreviousVote(vote_data, user_id)
    IN  IF previous_vote # None
        THEN [vote_data EXCEPT ![previous_vote] = Max(0, @ - 1)]
        ELSE vote_data

\* vote_data['users'][user_id] = vote_type; vote_data[vote_type] += 1
AddVote_KeepFirst(vote_data, user_id, vote_type) ==
    LET kept == IF user_id \in DOMAIN vote_data["users"]
                THEN vote_data["users"][user_id] ELSE vote_type
    IN  [vote_data EXCEPT !["users"] = Put(@, user_id, kept), ![kept] = @ + 1]
AddVote(vote_data, user_id, vote_type) ==
    [vote_data EXCEPT !["users"] = Put(@, user_id, vote_type), ![vote_type] = @ + 1]

HandleVote_SkipRemoval(vote_data, user_id, vote_type) ==
    IF PreviousVote(vote_data, user_id) = vote_type
    THEN AddVote(vote_data, user_id, vote_type)
    ELSE AddVote(RemovePrevious(vote_data, user_id), user_id, vote_type)
HandleVote(vote_data, user_id, vote_type) ==
    AddVote(RemovePrevious(vote_data, user_id), user_id, vote_type)

(***************************************************************************)
(* CacheManager.delete_executed_keys_and_archive, data_processing.py:62-111*)
(***************************************************************************)
\* The loop's test: the record has an index and it is not in active_proposals.
KeysToRemove_Inverted(vote_counts_doc, active_proposals) ==
    {thread_id \in DOMAIN vote_counts_doc :
        /\ "index" \in DOMAIN vote_counts_doc[thread_id]
        /\ vote_counts_doc[thread_id]["index"] \in active_proposals}
KeysToRemove(vote_counts_doc, active_proposals) ==
    {thread_id \in DOMAIN vote_counts_doc :
        /\ "index" \in DOMAIN vote_counts_doc[thread_id]
        /\ vote_counts_doc[thread_id]["index"] \notin active_proposals}

\* {**vote_data, 'archived_at': ..., 'final_status': 'completed'}
ArchiveEntry(vote_data, timestamp) ==
    [k \in DOMAIN vote_data \cup {"archived_at", "final_status"} |->
        IF k = "archived_at" THEN timestamp
        ELSE IF k = "final_status" THEN "completed"
        ELSE vote_data[k]]

\* archived_votes after the loop
ArchivedVotes(archived_votes, vote_counts_doc, keys, timestamp) ==
    [thread_id \in DOMAIN archived_votes \cup keys |->
        IF thread_id \in keys
        THEN ArchiveEntry(vote_counts_doc[thread_id], timestamp)
        ELSE archived_votes[thread_id]]

\* What one call leaves behind.  outcome is "ok", "votes_fail" (open of the
\* vote file for writing raises), "archive_fail" (the write of the archive
\* raises after the vote file was written), "crash" (the process dies
\* between the two writes) or "archive_torn" (it dies during the second).
\* A missing vote file makes open() raise and a torn document makes
\* json.load raise before anything is written; every exception returns [].
FirstWrite_DocumentUntouched(vote_counts_doc, keys) == vote_counts_doc
FirstWrite(vote_counts_doc, keys) == Pop(vote_counts_doc, keys)

DeleteExecutedKeysAndArchive(vfile, afile, active_proposals, timestamp, outcome) ==
    IF ~vfile.exists \/ IsTorn(vfile) \/ IsTorn(afile) \/ outcome = "votes_fail"
    THEN [votes |-> vfile, archive |-> afile, result |-> {}]
    ELSE LET keys == KeysToRemove(vfile.doc, active_proposals)
             archived_votes == ArchivedVotes(afile.doc, vfile.doc, keys, timestamp)
         IN  IF outcome = "ok"
             THEN [votes |-> File(FirstWrite(vfile.doc, keys)),
                   archive |-> File(archived_votes),
                   result |-> keys]
             ELSE [votes |-> File(FirstWrite(vfile.doc, keys)),
                   archive |-> IF outcome = "archive_torn" THEN Torn ELSE afile,
                   result |-> {}]

(***************************************************************************)
(* hemi_network.py                                                         *)
(***************************************************************************)
\* get_governance_proposals: the proposals the chain source reports as
\* active, or {} when the body raises.
GetGovernanceProposals(active, failed) == IF failed THEN {} ELSE active

\* What one call can meet: any set of active proposals, or a failure.
Fetches ==
    {[active |-> A, failed |-> FALSE] : A \in SUBSET Proposals}
        \cup {[active |-> {}, failed |-> TRUE]}

\* monitor_new_proposals: every proposal whose id is not in known_proposals.
MonitorNewProposals(all_proposals, known_proposals) ==
    {prop_id \in all_proposals : prop_id \notin known_proposals}

\* The record check_governance stores for a new thread, main.py:480-489.
NewVoteData(index, epoch) ==
    [index |-> index, aye |-> 0, nay |-> 0, recuse |-> 0,
     users |-> EmptyDict, epoch |-> epoch]


(***************************************************************************)
(* Initial state, main.py:213-226: a first start with no data files, or a  *)
(* restart over the vote file an earlier run left with one fresh record.   *)
(***************************************************************************)
\* config.py:37, 47 with no environment variable set; the jobs before
\* on_ready starts them.
DefaultConfig == [SOLO_MODE |-> TRUE, READ_ONLY |-> FALSE]
Jobs == {"check_governance", "autonomous_voting", "sync_embeds", "recheck_proposals"}
NotStarted == [job \in Jobs |-> "stopped"]

NoRec == [valid |-> FALSE, A |-> {}, twice |-> FALSE]
NoRun == [valid |-> FALSE, A |-> {}, complete |-> FALSE]

\* Thread ids are Discord snowflakes: they never equal a proposal id.
FirstThread == MaxProposal + 1

Init ==
    /\ \/ /\ votes_file = NoFile
          /\ vote_counts = EmptyDict
          /\ nextThread = 0
       \/ /\ votes_file = File(Put(EmptyDict, FirstThread, NewVoteData(1, 0)))
          /\ vote_counts = votes_file.doc
          /\ nextThread = 1
    /\ lastCast = [thread \in DOMAIN vote_counts |-> EmptyDict]
    /\ archive_file = NoFile
    /\ pc = "idle"
    /\ new_referendums = {}
    /\ pending = {}
    /\ threads_to_lock = {}
    /\ now = 0
    /\ nops = 0
    /\ op = Op("start", "ok")
    /\ prevRec = NoRec
    /\ lastRun = NoRun
    /\ cache_file = NoFile
    /\ gm_new = {}
    /\ gm_active = {}
    /\ backups = {}
    /\ votes_mtime = 0
    /\ config = DefaultConfig
    /\ task = NotStarted
    /\ managed_tasks = {}
    /\ w3 = None

(***************************************************************************)
(* ButtonHandler, button_handler.py                                        *)
(***************************************************************************)
\* The view check_governance attaches to a new thread, main.py:502: its
\* thread_id is the message id itself, an integer.
AttachedView(thread) == IntKey(thread)

\* The views of a thread: the attached one, and one built as the signature
\* __init__(client, thread_id: str) declares, on the key of the record.
Views(thread) == {AttachedView(thread), StrKey(thread)}

\* What a recorded click is with respect to the clicks before it: the
\* user's first vote on the thread, the same choice again, or a change.
CastKind(casts, user_id, vote_type) ==
    IF user_id \notin DOMAIN casts THEN "first"
    ELSE IF casts[user_id] = vote_type THEN "same" ELSE "changed"

\* A thread id Discord never allocates: no record is ever created for it.
UnknownThread == FirstThread + MaxThreads

\* client.vote_counts after lines 45-66: untouched when self.thread_id is not
\* one of its keys, else with the click applied to the thread's record.
CastVote_CreateMissing(dictionary, h, user_id, vote_type) ==
    IF h.val \in DOMAIN dictionary
    THEN [dictionary EXCEPT ![h.val] = HandleVote(@, user_id, vote_type)]
    ELSE Put(dictionary, h.val, AddVote(NewVoteData(0, 0), user_id, vote_type))
CastVote(dictionary, h, user_id, vote_type) ==
    IF ~Contains(dictionary, h)
    THEN dictionary
    ELSE [dictionary EXCEPT ![h.val] = HandleVote(@, user_id, vote_type)]

\* _handle_vote: a click of user_id on the vote_type button of view h.
Vote(h, user_id, vote_type) ==
    /\ pc # "down"
    /\ nops < MaxOps
    /\ nops' = nops + 1
    /\ vote_counts' = CastVote(vote_counts, h, user_id, vote_type)
    /\ IF ~Contains(vote_counts, h)
       THEN /\ op' = Op("vote", "inactive")
            /\ UNCHANGED <<votes_file, lastCast, prevRec>>
       ELSE \* save_vote_counts, main.py:228-231
            /\ votes_file' = File(vote_counts')
            /\ op' = Op("vote", CastKind(lastCast[h.val], user_id, vote_type))
            /\ lastCast' = [lastCast EXCEPT ![h.val] = Put(@, user_id, vote_type)]
            /\ prevRec' = NoRec
    /\ UNCHANGED <<archive_file, pc, new_referendums, pending, threads_to_lock,
                   nextThread, now, lastRun, regVars, storeVars, jobVars>>

(***************************************************************************)
(* check_governance, main.py:377-578                                       *)
(***************************************************************************)
\* lines 396-400: discovery against the keys of client.vote_counts
CGDiscover ==
    /\ pc = "idle"
    /\ nops < MaxOps
    /\ nops' = nops + 1
    /\ now' = now + 1
    /\ \E fetch \in Fetches :
        LET all_proposals == GetGovernanceProposals(fetch.active, fetch.failed)
            known_proposals == DOMAIN vote_counts
        IN  /\ new_referendums' = MonitorNewProposals(all_proposals, known_proposals)
            /\ op' = Op("discover", IF fetch.failed THEN "failed" ELSE "ok")
            /\ lastRun' = [valid |-> TRUE, A |-> all_proposals, complete |-> FALSE]
    /\ pending' = new_referendums'
    /\ pc' = "archive"
    /\ UNCHANGED <<vote_counts, votes_file, archive_file, threads_to_lock,
                   nextThread, lastCast, prevRec, regVars, storeVars, jobVars>>

\* lines 404-421: archival, then the early return when nothing is new
CGArchive ==
    /\ pc = "archive"
    /\ nops < MaxOps
    /\ nops' = nops + 1
    /\ \E fetch \in Fetches, outcome \in {"ok", "archive_fail", "crash"} :
        LET active_proposals == GetGovernanceProposals(fetch.active, fetch.failed)
            failed == fetch.failed
            r == DeleteExecutedKeysAndArchive(votes_file, archive_file,
                                              active_proposals, now, outcome)
            again == prevRec.valid /\ prevRec.A = active_proposals
            died == outcome = "crash" /\ votes_file.exists
        IN  /\ votes_file' = r.votes
            /\ archive_file' = r.archive
            /\ threads_to_lock' = r.result
            /\ op' = Op("reconcile",
                        IF ~votes_file.exists THEN "no_file"
                        ELSE IF failed THEN "fetch_failed_" \o outcome
                        ELSE outcome)
            /\ prevRec' = IF died THEN NoRec
                          ELSE [valid |-> TRUE, A |-> active_proposals, twice |-> again]
            /\ pc' = IF died THEN "down"
                     ELSE IF new_referendums = {} THEN "idle" ELSE "create"
            /\ lastRun' = IF died THEN NoRun
                          ELSE [lastRun EXCEPT !.complete = new_referendums = {}]
    /\ UNCHANGED <<vote_counts, new_referendums, pending, nextThread, now,
                   lastCast, regVars, storeVars, jobVars>>

\* lines 428-503, one iteration of the loop over new_referendums
CGCreate ==
    /\ pc = "create"
    /\ pending # {}
    /\ nops < MaxOps
    /\ nops' = nops + 1
    /\ LET index == Min(pending)
           thread == FirstThread + nextThread
       IN  /\ pending' = pending \ {index}
           /\ pc' = IF pending' = {} THEN "idle" ELSE "create"
           /\ new_referendums' = IF pending' = {} THEN {} ELSE new_referendums
           /\ \/ \* the thread is created: lines 479-503
                 /\ nextThread < MaxThreads
                 /\ nextThread' = nextThread + 1
                 /\ vote_counts' = Put(vote_counts, thread, NewVoteData(index, now))
                 /\ votes_file' = File(vote_counts')
                 /\ lastCast' = Put(lastCast, thread, EmptyDict)
                 /\ op' = Op("create", "ok")
                 /\ lastRun' = IF lastRun.valid
                               THEN [lastRun EXCEPT !.complete = pending' = {}]
                               ELSE NoRun
              \/ \* manage_discord_thread returns None: lines 467-469
                 /\ op' = Op("create", "no_thread")
                 /\ lastRun' = NoRun
                 /\ UNCHANGED <<vote_counts, votes_file, nextThread, lastCast>>
    /\ prevRec' = NoRec
    /\ UNCHANGED <<archive_file, threads_to_lock, now, regVars, storeVars, jobVars>>

Next ==
    \/ \E thread \in DOMAIN lastCast \cup {UnknownThread},
             user_id \in Users, vote_type \in Choices :
          \E h \in Views(thread) : Vote(h, user_id, vote_type)
    \/ CGDiscover
    \/ CGArchive
    \/ CGCreate

Spec == Init /\ [][Next]_vars

(***************************************************************************)
(* The creation of a vote record taken by itself, main.py:479-491: the     *)
(* block stores the record under whatever id Discord returned for the new  *)
(* thread, and nothing in the code tests that id.                          *)
(***************************************************************************)
ThreadIds == FirstThread .. (FirstThread + MaxThreads - 1)

CreateRecord(thread, index) ==
    /\ pc # "down"
    /\ nops < MaxOps
    /\ nops' = nops + 1
    /\ vote_counts' = Put(vote_counts, thread, NewVoteData(index, now))
    \* save_vote_counts, main.py:491
    /\ votes_file' = File(vote_counts')
    /\ lastCast' = Put(lastCast, thread, EmptyDict)
    /\ op' = Op("create", "ok")
    /\ UNCHANGED <<archive_file, pc, new_referendums, pending, threads_to_lock,
                   nextThread, now, prevRec, lastRun, regVars, storeVars, jobVars>>

NextCreate ==
    \/ \E thread \in ThreadIds, index \in Proposals : CreateRecord(thread, index)
    \/ \E thread \in DOMAIN lastCast, user_id \in Users, vote_type \in Choices :
          Vote(StrKey(thread), user_id, vote_type)

SpecCreate == Init /\ [][NextCreate]_vars

(***************************************************************************)
(* Discovery over a batch in which some proposals lack a field,            *)
(* hemi_network.py:125-149.  The loop indexes prop_data['title'],          *)
(* ['description'], ['onchain'], ['created_at'], ['proposer'] and          *)
(* ['track'] of every proposal that is not known, inside one try.          *)
(***************************************************************************)
\* What the chain source can hand over: the active proposals and, among
\* them, those that lack one of the fields.
Batches ==
    UNION {{[active |-> A, malformed |-> M] : M \in SUBSET A} : A \in SUBSET Proposals}

\* monitor_new_proposals on such a batch: a missing field raises KeyError,
\* the except of lines 147-149 returns {}.
MonitorNewProposalsIn(batch, known_proposals) ==
    LET new_proposals == MonitorNewProposals(batch.active, known_proposals)
    IN  IF new_proposals \cap batch.malformed # {} THEN {} ELSE new_proposals

\* check_governance, lines 396-400, the chain source answering with a batch
CGDiscoverBatch ==
    /\ pc = "idle"
    /\ nops < MaxOps
    /\ nops' = nops + 1
    /\ now' = now + 1
    /\ \E batch \in Batches :
        /\ new_referendums' = MonitorNewProposalsIn(batch, DOMAIN vote_counts)
        /\ op' = Op("discover_batch", batch)
        /\ lastRun' = [valid |-> TRUE, A |-> batch.active, complete |-> FALSE]
    /\ pending' = new_referendums'
    /\ pc' = "archive"
    /\ UNCHANGED <<vote_counts, votes_file, archive_file, threads_to_lock,
                   nextThread, lastCast, prevRec, regVars, storeVars, jobVars>>

NextBatch ==
    \/ CGDiscoverBatch
    \/ CGArchive
    \/ CGCreate

SpecBatch == Init /\ [][NextBatch]_vars

(***************************************************************************)
(* Backups and failing writes, data_processing.py:17-59, main.py:389-393   *)
(*                                                                         *)
(* A file of the backup directory is [name, mtime, content]: the name      *)
(* carries the clock reading of the call, shutil.copy2 gives the copy the  *)
(* modification time of the source, content is the file that was copied.   *)
(***************************************************************************)
\* How a call of rotating_backup_file can go: a step that is not reached
\* cannot fail.  Nothing is copied when the source is missing, nothing is
\* removed while the directory holds no more than max_backups files.
BackupOutcomes(source, backup_dir, max_backups, timestamp) ==
    IF ~source.exists THEN {"ok"}
    ELSE {"ok", "copy_fail", "list_fail"}
            \cup IF Cardinality({b \in backup_dir : b.name # timestamp}) >= max_backups
                 THEN {"remove_fail"} ELSE {}

\* How the writes of delete_executed_keys_and_archive can go: they are
\* reached only when both documents have been loaded.
WriteOutcomes(vfile, afile) ==
    IF vfile.exists /\ ~IsTorn(vfile) /\ ~IsTorn(afile)
    THEN {"ok", "votes_fail", "archive_fail", "archive_torn"}
    ELSE {"ok"}

SaveOutcomes == {"ok", "crash"}

\* _cleanup_old_backups: the files are sorted by modification time, newest
\* first, and those after the first max_backups are removed.  The sort is
\* stable and os.listdir gives the files in arbitrary order, so among files
\* of equal modification time any may be kept: every directory the call can
\* leave.
CleanupOldBackups(backup_files, max_backups) ==
    {kept \in SUBSET backup_files :
        /\ Cardinality(kept) = IF Cardinality(backup_files) <= max_backups
                               THEN Cardinality(backup_files) ELSE max_backups
        /\ \A k \in kept, r \in backup_files \ kept : k.mtime >= r.mtime}

\* rotating_backup_file: every directory the call can leave.  Nothing is
\* copied when the source is missing or the copy raises; nothing is removed
\* when os.listdir or the first os.remove raises.
RotatingBackupFile(source, mtime, backup_dir, max_backups, timestamp, outcome) ==
    IF ~source.exists \/ outcome = "copy_fail"
    THEN {backup_dir}
    ELSE LET copied == {b \in backup_dir : b.name # timestamp}
                          \cup {[name |-> timestamp, mtime |-> mtime,
                                 content |-> source]}
         IN  IF outcome = "ok"
             THEN CleanupOldBackups(copied, max_backups)
             ELSE {copied}

\* Whether the failure leaves the function as an exception.  Both bodies are
\* wrapped in try/except Exception that logs: data_processing.py:37-38, 58-59
\* and 109-111.
BackupRaises_Propagates(outcome) == outcome # "ok"
BackupRaises(outcome) == FALSE
ReconcileRaises(outcome) == FALSE

\* Whether the call wrote the vote file.
WroteVotes(vfile, afile, outcome) ==
    vfile.exists /\ ~IsTorn(vfile) /\ ~IsTorn(afile) /\ outcome # "votes_fail"

\* The loop of main.py:428-503 over new_referendums, in dictionary order,
\* while Discord still allocates threads.
RECURSIVE CreateThreads(_, _, _, _)
CreateThreads(dictionary, referendums, allocated, epoch) ==
    IF referendums = {} \/ allocated >= MaxThreads
    THEN [vote_counts |-> dictionary, allocated |-> allocated]
    ELSE CreateThreads(Put(dictionary, FirstThread + allocated,
                           NewVoteData(Min(referendums), epoch)),
                       referendums \ {Min(referendums)}, allocated + 1, epoch)

CycleOut(backup, write, aborted) ==
    [backup |-> backup, write |-> write, aborted |-> aborted]

\* check_governance, main.py:377-578, as one step: the backup of the vote
\* file, discovery, archival, then the creation loop.  The chain source
\* answers the two calls of the cycle alike; Spec has them apart.
StoreCycle ==
    /\ pc = "idle"
    /\ now < MaxStoreCycles
    /\ now' = now + 1
    /\ \E fetch \in Fetches,
          backup \in BackupOutcomes(votes_file, backups, MaxBackups, now'),
          write \in WriteOutcomes(votes_file, archive_file) :
       \E backup_dir \in RotatingBackupFile(votes_file, votes_mtime, backups,
                                            MaxBackups, now', backup) :
        LET active_proposals == GetGovernanceProposals(fetch.active, fetch.failed)
            new == MonitorNewProposals(active_proposals, DOMAIN vote_counts)
            r == DeleteExecutedKeysAndArchive(votes_file, archive_file,
                                              active_proposals, now', write)
            died == write = "archive_torn"
                       /\ WroteVotes(votes_file, archive_file, write)
            c == IF died THEN CreateThreads(vote_counts, {}, nextThread, now')
                 ELSE CreateThreads(vote_counts, new, nextThread, now')
            created == c.allocated > nextThread
            failures == (IF backup = "ok" THEN 0 ELSE 1)
                           + (IF write = "ok" THEN 0 ELSE 1)
        IN  /\ nops + failures <= MaxStoreOps
            /\ nops' = nops + failures
            /\ backups' = backup_dir
            /\ IF BackupRaises(backup) \/ ReconcileRaises(write)
               THEN \* the except branch, lines 565-570
                    /\ op' = Op("cycle", CycleOut(backup, write, TRUE))
                    /\ UNCHANGED <<vote_counts, votes_file, archive_file, pc,
                                   threads_to_lock, nextThread, lastCast,
                                   votes_mtime>>
               ELSE /\ op' = Op("cycle", CycleOut(backup, write, FALSE))
                    /\ archive_file' = r.archive
                    /\ threads_to_lock' = r.result
                    /\ vote_counts' = c.vote_counts
                    /\ nextThread' = c.allocated
                    /\ lastCast' = [thread \in DOMAIN c.vote_counts |->
                                       IF thread \in DOMAIN lastCast
                                       THEN lastCast[thread] ELSE EmptyDict]
                    /\ votes_file' = IF created THEN File(c.vote_counts) ELSE r.votes
                    /\ votes_mtime' =
                          IF created \/ WroteVotes(votes_file, archive_file, write)
                          THEN now' ELSE votes_mtime
                    /\ pc' = IF died THEN "down" ELSE "idle"
    /\ UNCHANGED <<new_referendums, pending, prevRec, lastRun, regVars, jobVars>>

\* _handle_vote on the view that holds the key of the record, with the save
\* of main.py:228-231 completing or the process dying inside it.
StoreVote(thread, user_id, vote_type, outcome) ==
    /\ pc = "idle"
    /\ nops' = nops + (IF outcome = "ok" THEN 1 ELSE 2)
    /\ nops' <= MaxStoreOps
    /\ vote_counts' = CastVote(vote_counts, StrKey(thread), user_id, vote_type)
    /\ lastCast' = [lastCast EXCEPT ![thread] = Put(@, user_id, vote_type)]
    /\ votes_file' = IF outcome = "ok" THEN File(vote_counts') ELSE Torn
    /\ votes_mtime' = now
    /\ pc' = IF outcome = "ok" THEN "idle" ELSE "down"
    /\ op' = Op("vote", outcome)
    /\ UNCHANGED <<archive_file, new_referendums, pending, threads_to_lock,
                   nextThread, now, prevRec, lastRun, regVars, backups, jobVars>>

NextStore ==
    \/ StoreCycle
    \/ \E thread \in DOMAIN vote_counts, user_id \in Users,
          vote_type \in Choices, outcome \in SaveOutcomes :
          StoreVote(thread, user_id, vote_type, outcome)

SpecStore == Init /\ [][NextStore]_vars

\* The cycles alone, nobody clicking.
NextCycle == StoreCycle
SpecCycle == Init /\ [][NextCycle]_vars

(***************************************************************************)
(* GovernanceMonitor, governance_monitor.py                                *)
(***************************************************************************)
Statuses == {"active", "completed", "expired"}

\* _load_cache: json.load gives every key back as a string; a missing file
\* and a document json.load rejects (the exception is logged) both give {}.
LoadCache(file) ==
    IF file.exists /\ ~IsTorn(file)
    THEN [k \in {StrKey(i) : i \in DOMAIN file.doc} |-> file.doc[k.val]]
    ELSE EmptyDict

\* json.dump followed by json.load: an integer key is written as its decimal
\* string; when the string key is in the dictionary too, both are written
\* and the one written last, the integer inserted after the load, is read.
JsonDump(dictionary) ==
    [i \in {k.val : k \in DOMAIN dictionary} |->
        IF IntKey(i) \in DOMAIN dictionary
        THEN dictionary[IntKey(i)] ELSE dictionary[StrKey(i)]]

\* lines 37-40: proposal_id_int = int(proposal_id), tested against the keys
NewProposals(cached_proposals, active_proposals) ==
    {proposal_id \in active_proposals : IntKey(proposal_id) \notin DOMAIN cached_proposals}

\* lines 43-48
CacheEntry(proposal_id, timestamp) ==
    [id |-> proposal_id, discovered_at |-> timestamp, status |-> "new"]

\* cached_proposals after the loop of lines 37-48
AddToCache(cached_proposals, new_proposals, timestamp) ==
    [k \in DOMAIN cached_proposals \cup {IntKey(i) : i \in new_proposals} |->
        IF k.type = "int" /\ k.val \in new_proposals
        THEN CacheEntry(k.val, timestamp) ELSE cached_proposals[k]]

\* _save_cache, lines 88-94.  outcome is "ok", "write_fail" (open raises:
\* the exception is logged and the file is as it was) or "crash" (the process
\* dies inside json.dump).
SaveCache(file, cache_data, outcome) ==
    IF outcome = "ok" THEN File(JsonDump(cache_data))
    ELSE IF outcome = "crash" THEN Torn
    ELSE file

\* monitor_new_proposals, lines 29-60
GMMonitorNewProposals ==
    \E active_proposals \in SUBSET Proposals,
       outcome \in {"ok", "write_fail", "crash"} :
        LET cached_proposals == LoadCache(cache_file)
            new_proposals == NewProposals(cached_proposals, active_proposals)
        IN  /\ cache_file' = SaveCache(cache_file,
                                       AddToCache(cached_proposals,
                                                  new_proposals, now),
                                       outcome)
            /\ gm_new' = IF outcome = "crash" THEN {} ELSE new_proposals
            /\ gm_active' = active_proposals
            /\ op' = Op("gm_discover", outcome)
            /\ UNCHANGED <<tallyVars, storeVars, jobVars, now>>

\* update_proposal_status, lines 96-109
GMUpdateProposalStatus ==
    \E proposal_id \in Proposals, status \in Statuses :
        LET cached_proposals == LoadCache(cache_file)
        IN  /\ IF IntKey(proposal_id) \in DOMAIN cached_proposals
               THEN /\ cache_file' = File(JsonDump(
                           [cached_proposals EXCEPT ![IntKey(proposal_id)] =
                               [k \in DOMAIN @ \cup {"updated_at"} |->
                                   IF k = "status" THEN status
                                   ELSE IF k = "updated_at" THEN now ELSE @[k]]]))
                    /\ op' = Op("set_status", [id |-> proposal_id, status |-> status,
                                                found |-> TRUE])
               ELSE /\ cache_file' = cache_file
                    /\ op' = Op("set_status", [id |-> proposal_id, status |-> status,
                                                found |-> FALSE])
            /\ UNCHANGED <<tallyVars, storeVars, jobVars, now, gm_new, gm_active>>

\* Time passes between two calls.
GMTick ==
    /\ now < MaxClock
    /\ now' = now + 1
    /\ op' = Op("tick", "ok")
    /\ UNCHANGED <<tallyVars, regVars, storeVars, jobVars>>

NextRegistry ==
    \/ GMMonitorNewProposals
    \/ GMUpdateProposalStatus
    \/ GMTick

SpecRegistry == Init /\ [][NextRegistry]_vars

(***************************************************************************)
(* GovernanceMonitor.cleanup_old_proposals, governance_monitor.py:120-145  *)
(*                                                                         *)
(* The function is applied to cache documents drawn from a bounded set:    *)
(* entries of every status, discovered at any reading of the clock up to   *)
(* the present one.                                                        *)
(***************************************************************************)
AllStatuses == {"new"} \cup Statuses

\* The clock of the model counts half days.
TicksPerDay == 2

\* (current_time - discovered_time).days: whole days, rounded down.
AgeDays(discovered_at, current_time) == (current_time - discovered_at) \div TicksPerDay

\* lines 128-134
ProposalsToRemove_AnyStatus(cached_proposals, current_time, days) ==
    {proposal_id \in DOMAIN cached_proposals :
        /\ "discovered_at" \in DOMAIN cached_proposals[proposal_id]
        /\ AgeDays(cached_proposals[proposal_id]["discovered_at"], current_time) > days}
ProposalsToRemove(cached_proposals, current_time, days) ==
    {proposal_id \in DOMAIN cached_proposals :
        /\ "discovered_at" \in DOMAIN cached_proposals[proposal_id]
        /\ AgeDays(cached_proposals[proposal_id]["discovered_at"], current_time) > days
        /\ cached_proposals[proposal_id]["status"] \in {"completed", "expired"}}

\* cleanup_old_proposals(days): the cache is saved only when something is
\* removed, lines 140-141.
GMCleanupOldProposals ==
    \E days \in 0..MaxDays, outcome \in {"ok", "write_fail", "crash"} :
        LET cached_proposals == LoadCache(cache_file)
            proposals_to_remove == ProposalsToRemove(cached_proposals, now, days)
        IN  /\ IF proposals_to_remove # {}
               THEN /\ cache_file' = SaveCache(cache_file,
                                               Pop(cached_proposals, proposals_to_remove),
                                               outcome)
                    /\ op' = Op("sweep", [days |-> days, out |-> outcome])
               ELSE /\ outcome = "ok"
                    /\ cache_file' = cache_file
                    /\ op' = Op("sweep", [days |-> days, out |-> "nothing"])
            /\ UNCHANGED <<tallyVars, storeVars, jobVars, now, gm_new, gm_active>>

CachedEntries(current_time) ==
    [id : Proposals, discovered_at : 0..current_time, status : AllStatuses]

InitSweep ==
    /\ now \in 0..MaxClock
    /\ \E ids \in SUBSET Proposals :
          \E document \in [ids -> CachedEntries(now)] :
              /\ \A i \in ids : document[i]["id"] = i
              /\ cache_file = File(document)
    /\ votes_file = NoFile
    /\ vote_counts = EmptyDict
    /\ nextThread = 0
    /\ lastCast = EmptyDict
    /\ archive_file = NoFile
    /\ pc = "idle"
    /\ new_referendums = {}
    /\ pending = {}
    /\ threads_to_lock = {}
    /\ nops = 0
    /\ op = Op("start", "ok")
    /\ prevRec = NoRec
    /\ lastRun = NoRun
    /\ gm_new = {}
    /\ gm_active = {}
    /\ backups = {}
    /\ votes_mtime = 0
    /\ config = DefaultConfig
    /\ task = NotStarted
    /\ managed_tasks = {}
    /\ w3 = None

NextSweep ==
    \/ GMCleanupOldProposals
    \/ GMTick

SpecSweep == InitSweep /\ [][NextSweep]_vars

(***************************************************************************)
(* The periodic jobs, main.py:60-77 and 377-620, task_handler.py           *)
(*                                                                         *)
(* Each job is a discord.ext.tasks loop running as an asyncio task of the  *)
(* one event loop.  A job is "stopped" (no task, or the task is done),     *)
(* "ready" (started, its first iteration not yet run), "sleep" (between    *)
(* two iterations), "body" (inside an iteration, suspended at an await or  *)
(* about to go on), "stopping" (stop() was called: the task ends after its *)
(* pending iteration).  check_governance is moreover in "except" (line     *)
(* 566-567), "backoff" (asyncio.sleep(30), line 569) or "restarting"       *)
(* (restart() has cancelled the task, line 570).  Steps of different jobs  *)
(* interleave at the awaits.                                               *)
(***************************************************************************)
Configs == [SOLO_MODE : BOOLEAN, READ_ONLY : BOOLEAN]
Auxiliary == {"sync_embeds", "recheck_proposals"}

\* Loop.is_running(): the loop has a task and the task is not done.
IsRunning(state) == state # "stopped"

\* TaskHandler.start_tasks, task_handler.py:18-30
StartTasks(tasks, coroutine_task) ==
    [job \in Jobs |-> IF job \in coroutine_task /\ ~IsRunning(tasks[job])
                      THEN "ready" ELSE tasks[job]]

\* TaskHandler.stop_tasks, task_handler.py:32-45
StopTasks(tasks, coroutine_task) ==
    [job \in Jobs |-> IF job \in coroutine_task /\ IsRunning(tasks[job])
                      THEN "stopping" ELSE tasks[job]]

\* managed_tasks after start_tasks (line 28: the jobs it started are entered)
\* and after stop_tasks (line 43: the jobs it stopped are removed)
StartTasksManaged(managed, tasks, coroutine_task) ==
    managed \cup {job \in coroutine_task : ~IsRunning(tasks[job])}
StopTasksManaged(managed, tasks, coroutine_task) ==
    managed \ {job \in coroutine_task : IsRunning(tasks[job])}

\* TaskHandler.evaluate_task_schedule, task_handler.py:63-73: it logs when
\* the task is not running and returns whether it is.
EvaluateTaskSchedule(state) == IsRunning(state)

\* Whether an iteration of the job is under way.
InProgress(state) == state \in {"body", "except", "backoff"}

\* check_governance.restart(), line 570, called from inside the iteration:
\* the running task is cancelled and a callback starts the loop again once
\* the task is done.
Restart_Stop(state) == "stopped"
Restart(state) == IF IsRunning(state) THEN "restarting" ELSE state

\* HemiNetwork.close, hemi_network.py:171-175
Close(connection) == None

\* on_ready, main.py:60-77
OnReady ==
    /\ task = NotStarted
    /\ task' = IF ~config.READ_ONLY
               THEN StartTasks(task, {"check_governance"}
                                        \cup (IF ~config.SOLO_MODE
                                              THEN {"autonomous_voting"} ELSE {})
                                        \cup Auxiliary)
               ELSE StartTasks(task, {"check_governance"})
    /\ op' = Op("on_ready", "ok")
    /\ UNCHANGED <<tallyVars, regVars, storeVars, now, config, w3, managed_tasks>>

\* check_governance up to its first await on Discord, lines 382-411: the
\* result of evaluate_task_schedule is dropped, the two auxiliary jobs are
\* stopped, the chain source is asked, which connects when it can.
CGBegin ==
    /\ task["check_governance"] \in {"ready", "sleep"}
    /\ task' = [StopTasks(task, Auxiliary) EXCEPT !["check_governance"] = "body"]
    /\ managed_tasks' = StopTasksManaged(managed_tasks, task, Auxiliary)
    /\ w3' \in {None, "Web3"}
    /\ op' = Op("cg_begin", EvaluateTaskSchedule(task["autonomous_voting"]))
    /\ UNCHANGED <<tallyVars, regVars, storeVars, now, config>>

\* the iteration ends without an exception: the finally of lines 571-578
CGReturn ==
    /\ task["check_governance"] = "body"
    /\ w3' = Close(w3)
    /\ task' = [(IF config.SOLO_MODE = FALSE /\ ~config.READ_ONLY
                 THEN StartTasks(task, {"autonomous_voting"} \cup Auxiliary)
                 ELSE IF config.SOLO_MODE = TRUE
                 THEN StartTasks(task, Auxiliary)
                 ELSE task) EXCEPT !["check_governance"] = "sleep"]
    /\ managed_tasks' =
          IF config.SOLO_MODE = FALSE /\ ~config.READ_ONLY
          THEN StartTasksManaged(managed_tasks, task,
                                 {"autonomous_voting"} \cup Auxiliary)
          ELSE IF config.SOLO_MODE = TRUE
          THEN StartTasksManaged(managed_tasks, task, Auxiliary)
          ELSE managed_tasks
    /\ op' = Op("cg_return", "ok")
    /\ UNCHANGED <<tallyVars, regVars, storeVars, now, config>>

\* an exception reaches the except of line 565
CGRaise ==
    /\ task["check_governance"] = "body"
    /\ task' = [task EXCEPT !["check_governance"] = "except"]
    /\ op' = Op("cg_raise", "ok")
    /\ UNCHANGED <<tallyVars, regVars, storeVars, now, config, w3, managed_tasks>>

\* line 568: await hemi_network.close(), then the sleep of line 569 begins
CGClose ==
    /\ task["check_governance"] = "except"
    /\ w3' = Close(w3)
    /\ task' = [task EXCEPT !["check_governance"] = "backoff"]
    /\ op' = Op("cg_close", "ok")
    /\ UNCHANGED <<tallyVars, regVars, storeVars, now, config, managed_tasks>>

\* lines 569-573: the 30 seconds are over, restart() is called and the
\* iteration ends (exception_occurred skips the finally's body)
CGBackoff ==
    /\ task["check_governance"] = "backoff"
    /\ task' = [task EXCEPT !["check_governance"] = Restart(@)]
    /\ op' = Op("cg_backoff", "ok")
    /\ UNCHANGED <<tallyVars, regVars, storeVars, now, config, w3, managed_tasks>>

\* the cancelled task is done: the callback of restart() starts the loop
CGRestarted ==
    /\ task["check_governance"] = "restarting"
    /\ task' = [task EXCEPT !["check_governance"] = "ready"]
    /\ op' = Op("cg_restarted", "ok")
    /\ UNCHANGED <<tallyVars, regVars, storeVars, now, config, w3, managed_tasks>>

\* autonomous_voting up to its await, main.py:581-591
AVBegin ==
    /\ task["autonomous_voting"] \in {"ready", "sleep"}
    /\ task' = [task EXCEPT !["autonomous_voting"] =
                    IF config.SOLO_MODE \/ config.READ_ONLY THEN "sleep" ELSE "body"]
    /\ op' = Op("av_begin", "ok")
    /\ UNCHANGED <<tallyVars, regVars, storeVars, now, config, w3, managed_tasks>>

\* lines 592-602: stop_tasks, then start_tasks in the finally
AVEnd ==
    /\ task["autonomous_voting"] = "body"
    /\ task' = [StartTasks(StopTasks(task, Auxiliary), Auxiliary)
                    EXCEPT !["autonomous_voting"] = "sleep"]
    /\ managed_tasks' =
          StartTasksManaged(StopTasksManaged(managed_tasks, task, Auxiliary),
                            StopTasks(task, Auxiliary), Auxiliary)
    /\ op' = Op("av_end", "ok")
    /\ UNCHANGED <<tallyVars, regVars, storeVars, now, config, w3>>

\* sync_embeds and recheck_proposals, lines 604-620: an iteration only logs
AuxRun(job) ==
    /\ task[job] = "ready"
    /\ task' = [task EXCEPT ![job] = "sleep"]
    /\ op' = Op("aux_run", job)
    /\ UNCHANGED <<tallyVars, regVars, storeVars, now, config, w3, managed_tasks>>

\* a job that was stopped ends after its pending iteration
AuxExit(job) ==
    /\ task[job] = "stopping"
    /\ task' = [task EXCEPT ![job] = "stopped"]
    /\ op' = Op("aux_exit", job)
    /\ UNCHANGED <<tallyVars, regVars, storeVars, now, config, w3, managed_tasks>>

\* TaskHandler.graceful_shutdown, task_handler.py:94-107: stop() for every
\* job of managed_tasks that is running, then managed_tasks.clear().  No
\* code of the repository calls it; the model lets it be called at any time
\* after on_ready.
GracefulShutdown ==
    /\ task # NotStarted
    /\ task' = StopTasks(task, managed_tasks)
    /\ managed_tasks' = {}
    /\ op' = Op("graceful_shutdown", "ok")
    /\ UNCHANGED <<tallyVars, regVars, storeVars, now, config, w3>>

InitJobs ==
    /\ config \in Configs
    /\ task = NotStarted
    /\ managed_tasks = {}
    /\ w3 = None
    /\ votes_file = NoFile
    /\ vote_counts = EmptyDict
    /\ nextThread = 0
    /\ lastCast = EmptyDict
    /\ archive_file = NoFile
    /\ pc = "idle"
    /\ new_referendums = {}
    /\ pending = {}
    /\ threads_to_lock = {}
    /\ now = 0
    /\ nops = 0
    /\ op = Op("start", "ok")
    /\ prevRec = NoRec
    /\ lastRun = NoRun
    /\ cache_file = NoFile
    /\ gm_new = {}
    /\ gm_active = {}
    /\ backups = {}
    /\ votes_mtime = 0

NextJobs ==
    \/ OnReady
    \/ CGBegin
    \/ CGReturn
    \/ CGRaise
    \/ CGClose
    \/ CGBackoff
    \/ CGRestarted
    \/ AVBegin
    \/ AVEnd
    \/ \E job \in Auxiliary : AuxRun(job)
    \/ \E job \in Auxiliary : AuxExit(job)
    \/ GracefulShutdown

SpecJobs == InitJobs /\ [][NextJobs]_vars

\* The event loop runs every task whose awaited call has returned, the timer
\* of asyncio.sleep(30) fires, and the callback of a finished task is called:
\* a step of check_governance that stays possible is taken.
SpecJobsFair ==
    /\ SpecJobs
    /\ WF_vars(CGBegin)
    /\ WF_vars(CGClose)
    /\ WF_vars(CGBackoff)
    /\ WF_vars(CGRestarted)

(***************************************************************************)
(* The answers of ButtonHandler._handle_vote, button_handler.py:34-85      *)
(***************************************************************************)
\* How save_vote_counts, main.py:228-231, can end: it returns, open() raises
\* (the file is as it was) or json.dump raises after open() has truncated
\* the file.
SaveResults == {"ok", "open_fail", "dump_fail"}

SaveVoteCounts(file, dictionary, outcome) ==
    IF outcome = "ok" THEN File(dictionary)
    ELSE IF outcome = "dump_fail" THEN Torn
    ELSE file

\* save_vote_counts has no try: the exception reaches _handle_vote.
SaveRaises(outcome) == outcome # "ok"

\* The messages one call sends with interaction.response.send_message, in
\* order: lines 38-43, 46-51, 75-78 and the except of lines 80-85.
Responses_ConfirmAfterFailure(allowed, known, raised) ==
    IF ~allowed THEN <<"no_permission">>
    ELSE IF ~known THEN <<"inactive">>
    ELSE <<"recorded">>
Responses(allowed, known, raised) ==
    IF ~allowed THEN <<"no_permission">>
    ELSE IF ~known THEN <<"inactive">>
    ELSE IF raised THEN <<"error">>
    ELSE <<"recorded">>

\* client.vote_counts after one call: the refusal of lines 38-43 returns
\* before the dictionary is read, a permitted click goes on to lines 45-66.
RecordVote_IgnorePermission(dictionary, h, user_id, vote_type, allowed) ==
    CastVote(dictionary, h, user_id, vote_type)
RecordVote(dictionary, h, user_id, vote_type, allowed) ==
    IF allowed THEN CastVote(dictionary, h, user_id, vote_type) ELSE dictionary

\* _handle_vote as a request and its answers.  allowed is the result of
\* _check_voting_permissions; a save that is not reached cannot fail.
HandleVoteRequest(h, user_id, vote_type, allowed, outcome) ==
    /\ pc # "down"
    /\ nops < MaxRequests
    /\ nops' = nops + 1
    /\ LET known == Contains(vote_counts, h)
           saved == allowed /\ known
       IN  /\ ~saved => outcome = "ok"
           /\ vote_counts' = RecordVote(vote_counts, h, user_id, vote_type, allowed)
           /\ votes_file' = IF saved
                            THEN SaveVoteCounts(votes_file, vote_counts', outcome)
                            ELSE votes_file
           /\ lastCast' = IF saved
                          THEN [lastCast EXCEPT ![h.val] = Put(@, user_id, vote_type)]
                          ELSE lastCast
           /\ prevRec' = IF saved THEN NoRec ELSE prevRec
           /\ op' = Op("request",
                       [thread |-> h.val, user |-> user_id, choice |-> vote_type,
                        save |-> outcome,
                        responses |-> Responses(allowed, known, SaveRaises(outcome))])
    /\ UNCHANGED <<archive_file, pc, new_referendums, pending, threads_to_lock,
                   nextThread, now, lastRun, regVars, storeVars, jobVars>>

NextResponse ==
    \E thread \in DOMAIN lastCast \cup {UnknownThread},
       user_id \in Users, vote_type \in Choices,
       allowed \in BOOLEAN, outcome \in SaveResults :
        \E h \in Views(thread) :
            HandleVoteRequest(h, user_id, vote_type, allowed, outcome)

SpecResponse == Init /\ [][NextResponse]_vars

(***************************************************************************)
(* _handle_vote on a vote file found at start, main.py:213-226: the file   *)
(* is loaded as it is, whatever its counts and users, consistent or not.   *)
(***************************************************************************)
LoadedRecords ==
    {[index |-> 1, aye |-> a, nay |-> n, recuse |-> r, users |-> u, epoch |-> 0] :
        a \in 0..MaxCount, n \in 0..MaxCount, r \in 0..MaxCount,
        u \in UNION {[voters -> Choices] : voters \in SUBSET Users}}

InitTally ==
    /\ \E vote_data \in LoadedRecords :
          votes_file = File(Put(EmptyDict, FirstThread, vote_data))
    /\ vote_counts = votes_file.doc
    /\ nextThread = 1
    /\ lastCast = [thread \in DOMAIN vote_counts |-> EmptyDict]
    /\ archive_file = NoFile
    /\ pc = "idle"
    /\ new_referendums = {}
    /\ pending = {}
    /\ threads_to_lock = {}
    /\ now = 0
    /\ nops = 0
    /\ op = Op("start", "ok")
    /\ prevRec = NoRec
    /\ lastRun = NoRun
    /\ cache_file = NoFile
    /\ gm_new = {}
    /\ gm_active = {}
    /\ backups = {}
    /\ votes_mtime = 0
    /\ config = DefaultConfig
    /\ task = NotStarted
    /\ managed_tasks = {}
    /\ w3 = None

\* _handle_vote, lines 53-69, on the view that holds the key of the record;
\* op keeps the choice the record held for the user and the count it had.
VoteOnLoaded(thread, user_id, vote_type) ==
    /\ nops < MaxRequests
    /\ nops' = nops + 1
    /\ vote_counts' = CastVote(vote_counts, StrKey(thread), user_id, vote_type)
    /\ votes_file' = File(vote_counts')
    /\ lastCast' = [lastCast EXCEPT ![thread] = Put(@, user_id, vote_type)]
    /\ LET previous_vote == PreviousVote(vote_counts[thread], user_id)
       IN  op' = Op("vote_loaded",
                    [previous |-> previous_vote,
                     had |-> IF previous_vote # None
                             THEN vote_counts[thread][previous_vote] ELSE 0])
    /\ UNCHANGED <<archive_file, pc, new_referendums, pending, threads_to_lock,
                   nextThread, now, prevRec, lastRun, regVars, storeVars, jobVars>>

NextTally ==
    \E thread \in DOMAIN vote_counts, user_id \in Users, vote_type \in Choices :
        VoteOnLoaded(thread, user_id, vote_type)

SpecTally == InitTally /\ [][NextTally]_vars

(***************************************************************************)
(* Properties                                                              *)
(***************************************************************************)
CountOf(users, choice) == Cardinality({u \in DOMAIN users : users[u] = choice})
TallyConsistent(vote_data) ==
    /\ \A choice \in Choices :
          vote_data[choice] = CountOf(vote_data["users"], choice)
    /\ vote_data["aye"] + vote_data["nay"] + vote_data["recuse"]
          = Cardinality(DOMAIN vote_data["users"])

\* A step of check_governance's archival call, and the active set it was given.
ReconcileStep == pc = "archive" /\ pc' # "archive"
DiscoverStep == pc = "idle" /\ pc' = "archive"
VoteStep == op'.name = "vote" /\ nops' = nops + 1

\* C1: in every reachable state every live vote record, in memory and in the
\* vote file, has counts[c] equal to the number of users whose choice is c,
\* and the three counts sum to the number of users.
C1_TallyInvariant ==
    /\ \A thread \in DOMAIN vote_counts : TallyConsistent(vote_counts[thread])
    /\ \A thread \in DOMAIN votes_file.doc : TallyConsistent(votes_file.doc[thread])

\* C1 witness: a record on which two users hold different choices.
C1_Witness ==
    \E thread \in DOMAIN vote_counts :
        \E u1, u2 \in DOMAIN vote_counts[thread]["users"] :
            /\ vote_counts[thread]["users"][u1] # vote_counts[thread]["users"][u2]
            /\ thread \in DOMAIN votes_file.doc
            /\ votes_file.doc[thread] = vote_counts[thread]

\* C2: after any sequence of recorded clicks, the users of every record map
\* each user who clicked to the last choice that user cast and hold nobody
\* else, and the counts sum to the number of users.
C2_LastChoiceWins ==
    \A thread \in DOMAIN vote_counts :
        /\ vote_counts[thread]["users"] = lastCast[thread]
        /\ vote_counts[thread]["aye"] + vote_counts[thread]["nay"]
             + vote_counts[thread]["recuse"]
             = Cardinality(DOMAIN vote_counts[thread]["users"])

\* C2 witness: a user has just replaced an earlier choice by another one.
C2_Witness == op.name = "vote" /\ op.out = "changed"

\* C3: a click that repeats the choice the user last cast on the thread
\* leaves every record's counts and users as they were.
C3_IdempotentRevote ==
    [][(VoteStep /\ op'.out = "same")
          => vote_counts' = vote_counts]_vars

\* C3 witness: a user has just cast the recorded choice a second time.
C3_Witness ==
    /\ op.name = "vote" /\ op.out = "same"
    /\ \E thread \in DOMAIN vote_counts : DOMAIN vote_counts[thread]["users"] # {}

\* C4: a record that archival has moved out of the vote file does not come
\* back into the vote file when check_governance creates and saves the record
\* of a new thread.
C4_RetiredStayRetired ==
    [][(pc = "create" /\ op'.name = "create") => \A thread \in DOMAIN archive_file.doc :
          thread \notin DOMAIN votes_file.doc
                => thread \notin DOMAIN votes_file'.doc]_vars

\* C5: a completed archival call with vote file D and active set A returns
\* the threads of D whose index is not in A, leaves in the vote file exactly
\* the other records of D, unchanged, and the archive holds for each returned
\* thread the record's fields unchanged plus archived_at and
\* final_status = completed.
C5_ReconcileResult ==
    [][(ReconcileStep /\ op'.out \in {"ok", "fetch_failed_ok"})
          => LET D == votes_file.doc
                 A == prevRec'.A
                 retired == {t \in DOMAIN D : D[t]["index"] \notin A}
             IN  /\ threads_to_lock' = retired
                 /\ votes_file'.doc = [t \in DOMAIN D \ retired |-> D[t]]
                 /\ \A t \in retired :
                       /\ t \in DOMAIN archive_file'.doc
                       /\ \A k \in DOMAIN D[t] : archive_file'.doc[t][k] = D[t][k]
                       /\ "archived_at" \in DOMAIN archive_file'.doc[t]
                       /\ archive_file'.doc[t]["final_status"] = "completed"]_vars

\* C5 witness: an archival call has retired one record and kept another.
C5_Witness ==
    /\ op.name = "reconcile" /\ op.out = "ok"
    /\ threads_to_lock # {}
    /\ threads_to_lock \subseteq DOMAIN archive_file.doc
    /\ DOMAIN votes_file.doc # {}

\* C6: whatever happens between the two writes of an archival call, every
\* record of the vote file before the call is afterwards in the vote file or
\* in the archive.
C6_NoRecordLost ==
    [][ReconcileStep
          => \A thread \in DOMAIN votes_file.doc :
                \/ thread \in DOMAIN votes_file'.doc
                \/ thread \in DOMAIN archive_file'.doc]_vars

\* C7: an archival step whose fetch of the active proposals failed moves no
\* record, returns no thread and leaves the vote file and the archive as
\* they were.
C7_FailedFetchRetiresNothing ==
    [][(ReconcileStep /\ op'.out = "fetch_failed_ok")
          => /\ threads_to_lock' = {}
             /\ votes_file'.doc = votes_file.doc
             /\ archive_file'.doc = archive_file.doc]_vars

\* C8: a discovery that sees the active set of the previous, completed cycle
\* (every proposal it found got its vote record) returns no new proposal.
C8_DiscoveryIdempotent ==
    [][(DiscoverStep /\ lastRun.valid /\ lastRun.complete
           /\ op'.out = "ok" /\ lastRun'.A = lastRun.A)
          => new_referendums' = {}]_vars

\* C9: a discovery over cache C and active ids A returns the ids of A that
\* are not in C, gives each of them an entry with status new, leaves the
\* entries of C as they were and persists the result.
C9_DiscoveryResult ==
    [][(op'.name = "gm_discover" /\ op'.out = "ok")
          => LET C == cache_file.doc
                 A == gm_active'
             IN  /\ gm_new' = A \ DOMAIN C
                 /\ cache_file'.exists
                 /\ DOMAIN cache_file'.doc = DOMAIN C \cup A
                 /\ \A i \in A \ DOMAIN C : cache_file'.doc[i]["status"] = "new"
                 /\ \A i \in DOMAIN C : cache_file'.doc[i] = C[i]]_vars

\* C10: an archival call that follows another one with the same active set,
\* nothing having touched the documents in between, returns no thread and
\* leaves the vote file and the archive with the same content.
C10_ArchivalIdempotent ==
    [][(ReconcileStep /\ prevRec.valid /\ prevRec'.valid /\ prevRec'.A = prevRec.A)
          => /\ threads_to_lock' = {}
             /\ votes_file'.doc = votes_file.doc
             /\ archive_file'.doc = archive_file.doc]_vars

\* C10 witness: the second of two such calls has returned, the first having
\* archived a record.
C10_Witness ==
    /\ op.name = "reconcile" /\ prevRec.valid /\ prevRec.twice
    /\ DOMAIN archive_file.doc # {}

\* The threads archival has moved out of the vote file.
Retired == DOMAIN archive_file.doc \ DOMAIN votes_file.doc

\* C11: the archive is append-only: no step changes or removes the entry a
\* thread has in the archive; an archival call that finds in the vote file a
\* record whose thread is already archived keeps the archived entry.
C11_ArchiveAppendOnly ==
    [][\A thread \in DOMAIN archive_file.doc :
          /\ thread \in DOMAIN archive_file'.doc
          /\ archive_file'.doc[thread] = archive_file.doc[thread]]_vars

\* C12: once archival has retired a thread, no click changes the counts or
\* users client.vote_counts holds for it, and while the retired thread is the
\* only one the bot knows, a click is answered "no longer active" and writes
\* neither the vote file nor the archive.
C12_RetiredVoteRejected ==
    [][VoteStep
          => \A thread \in Retired \cap DOMAIN vote_counts :
                /\ vote_counts'[thread] = vote_counts[thread]
                /\ DOMAIN lastCast = {thread}
                      => /\ op'.out = "inactive"
                         /\ votes_file' = votes_file
                         /\ archive_file' = archive_file]_vars

\* C13: a click on a thread for which no record was ever created is answered
\* "no longer active", and a click answered so leaves client.vote_counts,
\* the vote file and the archive as they were: no record is created, nothing
\* is saved.
C13_UnknownThreadRejected ==
    [][VoteStep
          => /\ DOMAIN lastCast = {} => op'.out = "inactive"
             /\ op'.out = "inactive"
                   => /\ vote_counts' = vote_counts
                      /\ votes_file' = votes_file
                      /\ archive_file' = archive_file]_vars

\* C13 witness: a click has been rejected, no record having ever been
\* created; there is still no record and no vote file.
C13_Witness ==
    /\ op.name = "vote" /\ op.out = "inactive"
    /\ DOMAIN lastCast = {}
    /\ vote_counts = EmptyDict
    /\ ~votes_file.exists

\* C14: a creation under a thread id that already has a record leaves that
\* record, its counts, users and proposal index, as it was.
C14_CreateConflict ==
    [][(op'.name = "create" /\ nops' = nops + 1)
          => \A thread \in DOMAIN vote_counts :
                vote_counts'[thread] = vote_counts[thread]]_vars

\* A step of check_governance in SpecStore and SpecCycle, and a step that
\* wrote the vote file.
CycleStep == op'.name = "cycle" /\ now' = now + 1
WriteStep == votes_file' # votes_file \/ votes_mtime' # votes_mtime

\* C15: whenever the process dies, each document holds the complete content
\* it had before the save that was under way or the complete new content:
\* no document is ever left empty or cut short.
C15_AtomicSave ==
    /\ ~IsTorn(votes_file)
    /\ ~IsTorn(archive_file)
    /\ ~IsTorn(cache_file)

\* C16: every step that overwrites an existing vote file leaves in the
\* backup directory a new copy holding the content the file had just before
\* (the copy itself not having failed).
C16_BackupBeforeOverwrite ==
    [][(votes_file.exists /\ WriteStep
           /\ ~(op'.name = "cycle" /\ op'.out.backup # "ok"))
          => \E b \in backups' \ backups : b.content = votes_file]_vars

\* C17: after a backup that ran to its end the directory holds max_backups
\* files, or one more than before while there is room, the backup just made
\* is among them, and every file removed was created before every file kept.
C17_BackupRetention ==
    [][(CycleStep /\ op'.out.backup = "ok" /\ votes_file.exists)
          => /\ \E b \in backups' : b.name = now'
             /\ Cardinality(backups') =
                   IF Cardinality(backups) < MaxBackups
                   THEN Cardinality(backups) + 1 ELSE MaxBackups
             /\ \A r \in backups \ backups', k \in backups' : r.name < k.name]_vars

\* C18: a cycle whose backup failed, in the copy, in the listing or in a
\* removal, is not aborted: archival runs on the documents and writes what
\* it writes when the backup succeeds.
C18_BackupFailureSwallowed ==
    [][(CycleStep /\ op'.out.backup # "ok")
          => /\ ~op'.out.aborted
             /\ \E A \in SUBSET Proposals :
                   LET r == DeleteExecutedKeysAndArchive(votes_file, archive_file,
                                                         A, now', op'.out.write)
                   IN  /\ archive_file' = r.archive
                       /\ threads_to_lock' = r.result
                       /\ nextThread' = nextThread => votes_file' = r.votes
             /\ WroteVotes(votes_file, archive_file, op'.out.write)
                   => votes_mtime' = now']_vars

\* C18 witness: the copy failed, no backup exists, and the same cycle has
\* archived a record and rewritten the vote file.
C18_Witness ==
    /\ op.name = "cycle"
    /\ op.out.backup = "copy_fail" /\ op.out.write = "ok"
    /\ backups = {}
    /\ threads_to_lock # {}
    /\ threads_to_lock \subseteq DOMAIN archive_file.doc
    /\ votes_mtime = now

\* C20: a cycle in which the write of the vote file or of the archive failed
\* is aborted: the failure reaches check_governance, which creates no thread
\* and no record in that cycle.
C20_WriteFailureReported ==
    [][(CycleStep /\ op'.out.write \in {"votes_fail", "archive_fail"})
          => /\ op'.out.aborted
             /\ vote_counts' = vote_counts
             /\ nextThread' = nextThread]_vars

\* C19: a discovery or a status update that finds a proposal cache json.load
\* rejects leaves the file as it is: the cache is not replaced by a document
\* built from an empty one.
C19_MalformedCacheKept ==
    [][(IsTorn(cache_file) /\ op'.name \in {"gm_discover", "set_status"})
          => cache_file' = cache_file]_vars

\* C21: a document that is saved and loaded back equals what was saved: after
\* a discovery has saved the proposal cache, newly discovered ids included,
\* _load_cache returns the dictionary that was handed to _save_cache, with
\* the same keys, so that every key found in it before the save is found
\* after the load.
C21_RoundTrip ==
    [][(op'.name = "gm_discover" /\ op'.out = "ok")
          => LET cached_proposals == LoadCache(cache_file)
                 saved == AddToCache(cached_proposals,
                                     NewProposals(cached_proposals, gm_active'), now)
             IN  /\ LoadCache(cache_file') = saved
                 /\ \A k \in DOMAIN saved : k \in DOMAIN LoadCache(cache_file')]_vars

\* C22: update_proposal_status(id, status) on an id the persisted cache
\* holds sets that entry's status, stamps updated_at and leaves every other
\* entry as it was; on an id the cache does not hold it leaves the file as
\* it was.
C22_SetStatus ==
    [][op'.name = "set_status"
          => LET C == cache_file.doc
                 id == op'.out.id
             IN  IF id \in DOMAIN C
                 THEN /\ DOMAIN cache_file'.doc = DOMAIN C
                      /\ cache_file'.doc[id]["status"] = op'.out.status
                      /\ "updated_at" \in DOMAIN cache_file'.doc[id]
                      /\ \A j \in DOMAIN C \ {id} : cache_file'.doc[j] = C[j]
                 ELSE cache_file' = cache_file]_vars

\* C23: cleanup_old_proposals(days) whose save completes leaves exactly the
\* entries that are not both completed or expired and more than days whole
\* days old; an entry with status new or active, and an entry at most days
\* whole days old, is in the cache afterwards, unchanged.
C23_Sweep ==
    [][op'.name = "sweep"
          => LET C == cache_file.doc
                 days == op'.out.days
                 old == {i \in DOMAIN C :
                            now - C[i]["discovered_at"] >= (days + 1) * TicksPerDay}
                 terminal == {i \in DOMAIN C : C[i]["status"] \in {"completed", "expired"}}
             IN  /\ op'.out.out \in {"ok", "nothing"}
                       => cache_file'.doc = [i \in DOMAIN C \ (old \cap terminal) |-> C[i]]
                 /\ op'.out.out # "crash"
                       => \A i \in DOMAIN C \ (old \cap terminal) :
                             /\ i \in DOMAIN cache_file'.doc
                             /\ cache_file'.doc[i] = C[i]]_vars

\* C23 witness: a sweep has removed an entry and saved the cache, which still
\* holds an entry with status new or active more than days whole days old.
C23_Witness ==
    /\ op.name = "sweep" /\ op.out.out = "ok"
    /\ \E i \in DOMAIN cache_file.doc :
          /\ cache_file.doc[i]["status"] \in {"new", "active"}
          /\ now - cache_file.doc[i]["discovered_at"] >= (op.out.days + 1) * TicksPerDay

\* C24: in no reachable state are an iteration of check_governance and an
\* iteration of autonomous_voting both under way.
C24_JobExclusion ==
    ~(InProgress(task["check_governance"]) /\ InProgress(task["autonomous_voting"]))

\* C25: an iteration of check_governance that ends in the except branch
\* releases the chain connection, then waits, then restarts the job, in this
\* order: the job is never left stopped, and another iteration eventually
\* begins.
C25_RestartAfterFailure ==
    /\ [][(task["check_governance"] # task'["check_governance"])
            => /\ task'["check_governance"] = "backoff"
                    => (task["check_governance"] = "except" /\ w3' = None)
               /\ task'["check_governance"] = "restarting"
                    => (task["check_governance"] = "backoff" /\ w3 = None)
               /\ task["check_governance"] = "restarting"
                    => task'["check_governance"] = "ready"
               /\ task'["check_governance"] # "stopped"]_vars
    /\ (task["check_governance"] = "except") ~> (task["check_governance"] = "body")

\* C25 witness: after a failed iteration the connection is released and the
\* job has been started again.
C25_Witness ==
    /\ op.name = "cg_restarted"
    /\ task["check_governance"] = "ready"
    /\ w3 = None

\* C26: a discovery over a batch in which some proposals lack a required
\* field skips those and returns every other proposal of the batch that is
\* not known, which the same cycle goes on to process.
C26_InvalidEntriesSkipped ==
    [][(DiscoverStep /\ op'.name = "discover_batch")
          => /\ new_referendums' = {prop_id \in op'.out.active \ op'.out.malformed :
                                       prop_id \notin DOMAIN vote_counts}
             /\ pending' = new_referendums']_vars

\* The vote of the request is in the persisted vote document.
Persisted(file, request) ==
    /\ file.exists /\ ~IsTorn(file)
    /\ request.thread \in DOMAIN file.doc
    /\ request.user \in DOMAIN file.doc[request.thread]["users"]
    /\ file.doc[request.thread]["users"][request.user] = request.choice

\* C27: every vote request is answered exactly once; when the save of the
\* vote failed the answer is the error message, and the confirmation is sent
\* only when the vote is in the vote file.
C27_VoteResponse ==
    [][op'.name = "request"
          => /\ Len(op'.out.responses) = 1
             /\ op'.out.save # "ok" => op'.out.responses = <<"error">>
             /\ op'.out.responses = <<"recorded">>
                   => Persisted(votes_file', op'.out)]_vars

\* C27 witness: a save failed and the request was answered with the error
\* message: the vote is in client.vote_counts and not in the vote file.
C27_Witness ==
    /\ op.name = "request"
    /\ op.out.save = "open_fail"
    /\ op.out.responses = <<"error">>
    /\ vote_counts[op.out.thread]["users"][op.out.user] = op.out.choice
    /\ ~Persisted(votes_file, op.out)

\* C28: a recorded click that changes the choice of a user on a consistent
\* record takes one from the count of the old choice, adds one to the count
\* of the new one and leaves the third count and the number of users as they
\* were; the first click of a user adds one to the count of the choice and
\* to the number of users and changes no other count.  The vote file holds
\* the record so changed.
C28_ChangeMovesOneUnit ==
    [][VoteStep
          => /\ \A thread \in DOMAIN vote_counts, u \in Users :
                   LET before == vote_counts[thread]
                       after == vote_counts'[thread]
                       c1 == PreviousVote(before, u)
                       c2 == PreviousVote(after, u)
                   IN  (c2 # c1 /\ TallyConsistent(before))
                          => /\ c2 # None
                             /\ after[c2] = before[c2] + 1
                             /\ c1 # None => after[c1] = before[c1] - 1
                             /\ \A c \in Choices \ {c1, c2} : after[c] = before[c]
                             /\ Cardinality(DOMAIN after["users"])
                                   = Cardinality(DOMAIN before["users"])
                                        + (IF c1 = None THEN 1 ELSE 0)
                             /\ votes_file'.doc[thread] = after
             /\ op'.out \in {"first", "changed"}
                   => \E thread \in DOMAIN vote_counts, u \in Users :
                         /\ PreviousVote(vote_counts'[thread], u)
                               # PreviousVote(vote_counts[thread], u)
                         /\ op'.out = "changed"
                               <=> PreviousVote(vote_counts[thread], u) # None]_vars

\* C28 witness: a user has moved to another choice on a record that another
\* user shares: each of the two holds one count, the third count is 0.
C28_Witness ==
    /\ op.name = "vote" /\ op.out = "changed"
    /\ \E thread \in DOMAIN vote_counts :
          /\ Cardinality(DOMAIN vote_counts[thread]["users"]) = 2
          /\ \E c \in Choices : vote_counts[thread][c] = 0
          /\ \E c \in Choices : vote_counts[thread][c] = 1

\* C29: the counts of every vote record, in client.vote_counts and in the
\* vote file, are never negative, also when clicks start from a record that
\* holds a user under a choice whose count is 0.
C29_CountsNonNegative ==
    /\ \A thread \in DOMAIN vote_counts, c \in Choices : vote_counts[thread][c] >= 0
    /\ \A thread \in DOMAIN votes_file.doc, c \in Choices :
          votes_file.doc[thread][c] >= 0

\* C29 witness: a user recorded under a choice whose count was 0 has clicked
\* another choice, and the count is 0.
C29_Witness ==
    /\ op.name = "vote_loaded"
    /\ op.out.previous # None /\ op.out.had = 0
    /\ \E thread \in DOMAIN vote_counts :
          /\ vote_counts[thread][op.out.previous] = 0
          /\ \E u \in DOMAIN vote_counts[thread]["users"] :
                vote_counts[thread]["users"][u] # op.out.previous

\* C30: a recorded click on thread T changes nothing but the counts and
\* users of T's record: T's index and creation stamp, the record of every
\* other thread, in client.vote_counts and in the vote file, the archive and
\* the proposal cache are as they were; and no step changes the index of a
\* record that client.vote_counts holds.
C30_CastVoteFrame ==
    [][/\ \A t \in DOMAIN vote_counts \cap DOMAIN vote_counts' :
             vote_counts'[t]["index"] = vote_counts[t]["index"]
       /\ (op'.name = "vote" /\ op'.out = "ok")
             => \E T \in DOMAIN vote_counts :
                   /\ DOMAIN vote_counts' = DOMAIN vote_counts
                   /\ \A t \in DOMAIN vote_counts \ {T} :
                         vote_counts'[t] = vote_counts[t]
                   /\ vote_counts'[T]["index"] = vote_counts[T]["index"]
                   /\ vote_counts'[T]["epoch"] = vote_counts[T]["epoch"]
                   /\ \A t \in (DOMAIN votes_file.doc \cup DOMAIN votes_file'.doc) \ {T} :
                         /\ t \in DOMAIN votes_file.doc
                         /\ t \in DOMAIN votes_file'.doc
                         /\ votes_file'.doc[t] = votes_file.doc[t]
                   /\ archive_file' = archive_file
                   /\ cache_file' = cache_file]_vars

\* The users whose votes the bot has accepted for a thread are the keys of
\* lastCast[thread]; a vote is live when the thread's record in the vote
\* file has the user, archived when the thread's archive entry has it.
LiveVote(thread, user_id) ==
    /\ votes_file.exists
    /\ thread \in DOMAIN votes_file.doc
    /\ user_id \in DOMAIN votes_file.doc[thread]["users"]
ArchivedVote(thread, user_id) ==
    /\ archive_file.exists
    /\ thread \in DOMAIN archive_file.doc
    /\ user_id \in DOMAIN archive_file.doc[thread]["users"]

\* C31: the records a cycle leaves belong to the active set its archival
\* step used: after archival every record of the vote file has its index in
\* that set, and so has the record the creation loop of the same cycle then
\* adds, whatever the chain source answers to the cycle's calls.
C31_OneSnapshotPerCycle ==
    [][/\ (ReconcileStep /\ pc' # "down")
             => \A t \in DOMAIN votes_file'.doc :
                   votes_file'.doc[t]["index"] \in prevRec'.A
       /\ (op'.name = "create" /\ op'.out = "ok" /\ nops' = nops + 1
              /\ prevRec.valid)
             => vote_counts'[FirstThread + nextThread]["index"] \in prevRec.A]_vars

\* C32: under any interleaving of clicks with the steps of a cycle, once a
\* click has been recorded every vote the bot has accepted is in exactly one
\* place: the live record of its thread in the vote file, or the archived
\* entry of that thread.
C32_NoLostUpdate ==
    (op.name = "vote" /\ op.out # "inactive")
       => \A thread \in DOMAIN lastCast :
             \A user_id \in DOMAIN lastCast[thread] :
                LiveVote(thread, user_id) # ArchivedVote(thread, user_id)

\* C33: the vote file never holds two records with the same proposal index.
C33_OneRecordPerProposal ==
    \A t1, t2 \in DOMAIN votes_file.doc :
       votes_file.doc[t1]["index"] = votes_file.doc[t2]["index"] => t1 = t2

\* C34: a click on the view check_governance has just attached to the thread
\* it created is not answered "no longer active": the vote is recorded for
\* the user in the thread's record, in client.vote_counts and in the vote
\* file.
C34_FreshThreadVote ==
    [][(op.name = "create" /\ op.out = "ok")
          => LET thread == FirstThread + nextThread - 1
             IN  \A user_id \in Users, vote_type \in Choices :
                    Vote(AttachedView(thread), user_id, vote_type)
                       => /\ op'.out # "inactive"
                          /\ user_id \in DOMAIN vote_counts'[thread]["users"]
                          /\ vote_counts'[thread]["users"][user_id] = vote_type
                          /\ votes_file'.doc[thread] = vote_counts'[thread]]_vars

\* C35: a vote request answered with the error message leaves
\* client.vote_counts as it was before the request.
C35_FailedVoteLeavesNoTrace ==
    [][(op'.name = "request" /\ op'.out.responses = <<"error">>)
          => vote_counts' = vote_counts]_vars

\* C38: a vote request refused by the permission check changes no record of
\* client.vote_counts and writes neither the vote file nor the archive.
C38_RefusedVoteChangesNothing ==
    [][(op'.name = "request" /\ op'.out.responses = <<"no_permission">>)
          => /\ vote_counts' = vote_counts
             /\ votes_file' = votes_file
             /\ archive_file' = archive_file]_vars

\* C38 witness: a user without a vote on a thread that client.vote_counts
\* and the vote file hold has been refused, and the record has no vote of
\* the user.
C38_Witness ==
    /\ op.name = "request"
    /\ op.out.responses = <<"no_permission">>
    /\ op.out.thread \in DOMAIN vote_counts \cap DOMAIN votes_file.doc
    /\ op.out.user \notin DOMAIN vote_counts[op.out.thread]["users"]
    /\ op.out.user \notin DOMAIN votes_file.doc[op.out.thread]["users"]

\* A step that ends an iteration of check_governance (its return, or the
\* restart after an exception) or of autonomous_voting past its early return.
CycleEnds == op'.name \in {"cg_return", "cg_backoff", "av_end"}

\* A job that goes on running: it has a task that was not told to stop.
Scheduled(state) == state \in {"ready", "sleep"}

\* C36: when READ_ONLY is off, sync_embeds and recheck_proposals, which
\* every iteration of check_governance and of autonomous_voting stops, are
\* scheduled again when the iteration has ended, however it ended.
C36_AuxiliaryJobsComeBack ==
    [][(~config.READ_ONLY /\ CycleEnds)
          => \A job \in Auxiliary : Scheduled(task'[job])]_vars

\* C37: with READ_ONLY on, no job but check_governance is ever started;
\* with SOLO_MODE on, autonomous_voting is never started.
C37_ReadOnlyMonitorsOnly ==
    /\ config.READ_ONLY
          => \A job \in Jobs \ {"check_governance"} : task[job] = "stopped"
    /\ config.SOLO_MODE => task["autonomous_voting"] = "stopped"

\* C39: when graceful_shutdown has returned, none of the four jobs is
\* running and managed_tasks is empty.
C39_GracefulShutdownStopsAll ==
    [][op'.name = "graceful_shutdown"
          => /\ \A job \in Jobs : ~IsRunning(task'[job])
             /\ managed_tasks' = {}]_vars

====
